---------------------------- MODULE Spec2Model ----------------------------
(***************************************************************************)
(* chrono-boost: a Pomodoro timer shipped as a web page (PomodoroTimer in  *)
(* pages/Index.tsx) and as a browser-extension popup                       *)
(* (PomodoroTimerExtension on top of the zustand store pomodoroStore) with *)
(* a background service worker (public/background.js).                     *)
(*                                                                         *)
(* The store is one record {timer, tasks, settings, dailyStats}; zustand's *)
(* set(partial) is Object.assign({}, state, partial), modelled by Assign.  *)
(* JavaScript numbers are integers plus NaN (parseInt of a cleared input). *)
(***************************************************************************)
EXTENDS Integers, Sequences, FiniteSets, TLC

VARIABLES
    ctx,          \* execution context explored: "popup", "web", "background", ...
    store,        \* usePomodoroStore state: [timer, tasks, settings, dailyStats]
    theme,        \* document.documentElement.className
    chromeStore,  \* chrome.storage.local entry 'pomodoroState': [present, state]
    bgPending,    \* background write-back in flight: [active, minutes, seconds]
    webTimer,     \* PomodoroTimer (web page) component state `timer`
    today,        \* calendar day of new Date()
    clock,        \* Date.now(), in milliseconds
    localStore,   \* localStorage entry 'pomodoro-storage': [present, version, state]
    emitted,      \* what the last step showed: [toast, system] (toast, chrome notification)
    fired,        \* tickers that fired in the current second: "popup", "alarm"
    hist          \* history: last operation, the values it found, current tick run

vars == <<ctx, store, theme, chromeStore, bgPending, webTimer, today, clock,
          localStore, emitted, fired, hist>>

----------------------------------------------------------------------------
(* Bounds of the model                                                     *)

\* completedPomodoros is capped: no focus completion beyond this count
MaxCompleted == 4
\* longest run of consecutive ticks that the history tracks
MaxTickRun == 3
\* largest minutes value of a session found in chrome.storage.local
MaxBgMinutes == 1
\* most seconds left in the entries the extension contexts start from
MaxBgSeconds == 2
\* longest task list
MaxTasks == 2
\* last millisecond Date.now() reaches
MaxClock == 2
\* last calendar day reached
MaxDay == 2

----------------------------------------------------------------------------
(* JavaScript values                                                       *)

\* parseInt("") : the not-a-number value; every numeric operator below
\* treats it as IEEE-754 does (comparisons false, arithmetic NaN, falsy)
NaN == -1

\* JSON null
null == -2

JsLt(a, b) == a # NaN /\ b # NaN /\ a < b

JsGt(a, b) == a # NaN /\ b # NaN /\ a > b

\* a && ... for a number a
JsTruthy(a) == a # NaN /\ a # 0

JsMul(a, b) == IF a = NaN \/ b = NaN THEN NaN ELSE a * b

\* a % b === 0 for a >= 0 (x % 0 and x % NaN are NaN; the sign of b is immaterial)
JsModIsZero(a, b) ==
    /\ a # NaN
    /\ b # NaN
    /\ b # 0
    /\ a % (IF b < 0 THEN 0 - b ELSE b) = 0

\* Object.assign({}, target, source) / { ...target, ...source }
Assign(target, source) ==
    [k \in (DOMAIN target) \cup (DOMAIN source) |->
        IF k \in DOMAIN source THEN source[k] ELSE target[k]]

----------------------------------------------------------------------------
(* Store: defaults                                                         *)

Modes == {"pomodoro", "shortBreak", "longBreak"}

defaultSettings ==
    [pomodoroDuration |-> 25, shortBreakDuration |-> 5, longBreakDuration |-> 15,
     longBreakInterval |-> 4, autoStartBreaks |-> FALSE, autoStartPomodoros |-> FALSE,
     notifications |-> TRUE, sounds |-> TRUE, theme |-> "system"]

defaultTimer ==
    [minutes |-> 25, seconds |-> 0, isRunning |-> FALSE, mode |-> "pomodoro",
     completedPomodoros |-> 0, currentCycle |-> 1]

----------------------------------------------------------------------------
(* Store: operations (each maps the store state to the state after it)     *)

\* duration = mode === 'pomodoro' ? pomodoroDuration : mode === 'shortBreak' ? ...
ModeDuration(settings, mode) ==
    IF mode = "pomodoro" THEN settings.pomodoroDuration
    ELSE IF mode = "shortBreak" THEN settings.shortBreakDuration
    ELSE settings.longBreakDuration

startTimer(s) == Assign(s, [timer |-> Assign(s.timer, [isRunning |-> TRUE])])

pauseTimer(s) == Assign(s, [timer |-> Assign(s.timer, [isRunning |-> FALSE])])

\* faulty variant: reset always reloads the focus duration
resetTimerFocusOnly(s) ==
    Assign(s, [timer |-> Assign(s.timer,
                 [minutes |-> s.settings.pomodoroDuration, seconds |-> 0,
                  isRunning |-> FALSE])])

resetTimer(s) ==
    LET duration == ModeDuration(s.settings, s.timer.mode)
    IN  Assign(s, [timer |-> Assign(s.timer,
                     [minutes |-> duration, seconds |-> 0, isRunning |-> FALSE])])

\* faulty variant: the day of completion is not compared
CompletedTasksAnyDay(tasks, day) ==
    Cardinality({i \in DOMAIN tasks :
        tasks[i].completed /\ tasks[i].completedAt.set})

\* tasks completed on day `day`
CompletedTasksOn(tasks, day) ==
    Cardinality({i \in DOMAIN tasks :
        /\ tasks[i].completed
        /\ tasks[i].completedAt.set
        /\ tasks[i].completedAt.day = day})

\* faulty variant: a row is appended whether or not the day has one
updateDailyStatsAppends(s, day) ==
    Assign(s, [dailyStats |-> Append(s.dailyStats,
        [date |-> day,
         completedPomodoros |-> s.timer.completedPomodoros,
         totalFocusTime |-> JsMul(s.timer.completedPomodoros,
                                  s.settings.pomodoroDuration),
         completedTasks |-> CompletedTasksOn(s.tasks, day)])])

updateDailyStats(s, day) ==
    LET row == [date |-> day,
                completedPomodoros |-> s.timer.completedPomodoros,
                totalFocusTime |-> JsMul(s.timer.completedPomodoros,
                                         s.settings.pomodoroDuration),
                completedTasks |-> CompletedTasksOn(s.tasks, day)]
        found == \E i \in DOMAIN s.dailyStats : s.dailyStats[i].date = day
    IN  IF found
        THEN Assign(s, [dailyStats |->
                 [i \in DOMAIN s.dailyStats |->
                     IF s.dailyStats[i].date = day
                     THEN Assign(s.dailyStats[i], row)
                     ELSE s.dailyStats[i]]])
        ELSE Assign(s, [dailyStats |-> Append(s.dailyStats, row)])

\* faulty variant: the break type decided on the count before the increment
NextModeStale(timer, settings) ==
    IF timer.mode = "pomodoro"
    THEN IF JsModIsZero(timer.completedPomodoros, settings.longBreakInterval)
         THEN "longBreak" ELSE "shortBreak"
    ELSE "pomodoro"

\* the mode completeTimer enters and the counters it computes
NextMode(timer, settings) ==
    IF timer.mode = "pomodoro"
    THEN IF JsModIsZero(timer.completedPomodoros + 1, settings.longBreakInterval)
         THEN "longBreak" ELSE "shortBreak"
    ELSE "pomodoro"

\* isRunning: settings.autoStartBreaks || (newMode === 'pomodoro' && settings.autoStartPomodoros)
AutoStart(settings, newMode) ==
    settings.autoStartBreaks \/ (newMode = "pomodoro" /\ settings.autoStartPomodoros)

\* faulty variant: the cycle is counted on leaving either break
completeTimerAnyBreak(s, day) ==
    LET timer == s.timer
        settings == s.settings
        newMode == NextMode(timer, settings)
        newCompletedPomodoros ==
            IF timer.mode = "pomodoro" THEN timer.completedPomodoros + 1
            ELSE timer.completedPomodoros
        newCycle ==
            IF timer.mode # "pomodoro" THEN timer.currentCycle + 1
            ELSE timer.currentCycle
        duration == ModeDuration(settings, newMode)
        afterSet == Assign(s, [timer |-> Assign(timer,
                       [mode |-> newMode, minutes |-> duration, seconds |-> 0,
                        isRunning |-> AutoStart(settings, newMode),
                        completedPomodoros |-> newCompletedPomodoros,
                        currentCycle |-> newCycle])])
    IN  updateDailyStats(afterSet, day)

completeTimer(s, day) ==
    LET timer == s.timer
        settings == s.settings
        newMode == NextMode(timer, settings)
        newCompletedPomodoros ==
            IF timer.mode = "pomodoro" THEN timer.completedPomodoros + 1
            ELSE timer.completedPomodoros
        newCycle ==
            IF timer.mode = "longBreak" THEN timer.currentCycle + 1
            ELSE timer.currentCycle
        duration == ModeDuration(settings, newMode)
        afterSet == Assign(s, [timer |-> Assign(timer,
                       [mode |-> newMode, minutes |-> duration, seconds |-> 0,
                        isRunning |-> AutoStart(settings, newMode),
                        completedPomodoros |-> newCompletedPomodoros,
                        currentCycle |-> newCycle])])
    IN  updateDailyStats(afterSet, day)

updateSettings(s, newSettings) ==
    LET merged == Assign(s, [settings |-> Assign(s.settings, newSettings)])
    IN  IF /\ "pomodoroDuration" \in DOMAIN newSettings
           /\ JsTruthy(newSettings.pomodoroDuration)
           /\ merged.timer.mode = "pomodoro"
        THEN Assign(merged, [timer |-> Assign(merged.timer,
                 [minutes |-> merged.settings.pomodoroDuration, seconds |-> 0,
                  isRunning |-> FALSE])])
        ELSE merged

----------------------------------------------------------------------------
(* Popup: the one-second interval of PomodoroTimerExtension                *)

\* faulty variant: the borrow forgets to take the minute
popupTickNoBorrow(s, day) ==
    IF s.timer.seconds > 0
    THEN Assign(s, [timer |-> Assign(s.timer, [seconds |-> s.timer.seconds - 1])])
    ELSE IF JsGt(s.timer.minutes, 0)
    THEN Assign(s, [timer |-> Assign(s.timer, [seconds |-> 59])])
    ELSE Assign(completeTimer(s, day), s)

\* faulty variant: the borrow restarts the seconds at 60
popupTickSixty(s, day) ==
    IF s.timer.seconds > 0
    THEN Assign(s, [timer |-> Assign(s.timer, [seconds |-> s.timer.seconds - 1])])
    ELSE IF JsGt(s.timer.minutes, 0)
    THEN Assign(s, [timer |-> Assign(s.timer,
                      [minutes |-> s.timer.minutes - 1, seconds |-> 60])])
    ELSE Assign(completeTimer(s, day), s)

\* usePomodoroStore.setState(updater): the updater's partial result is merged
\* into the state the store holds when the updater returns.  In the last
\* branch the updater first runs completeTimer (which replaces the store's
\* state) and then returns the state object it was called with, so that
\* object's fields are merged over the completed state.
popupTick(s, day) ==
    IF s.timer.seconds > 0
    THEN Assign(s, [timer |-> Assign(s.timer, [seconds |-> s.timer.seconds - 1])])
    ELSE IF JsGt(s.timer.minutes, 0)
    THEN Assign(s, [timer |-> Assign(s.timer,
                      [minutes |-> s.timer.minutes - 1, seconds |-> 59])])
    ELSE Assign(completeTimer(s, day), s)

----------------------------------------------------------------------------
(* Persistence and notifications of the popup                              *)

NoToast == [title |-> "", description |-> ""]

Toast(title, description) == [title |-> title, description |-> description]

NoEmission == [toast |-> NoToast, system |-> NoToast]

\* a Date value; `str` tells a Date object from the ISO string JSON makes of it
undefined == [set |-> FALSE, day |-> 0, ms |-> 0, str |-> FALSE]

NewDate(day, ms) == [set |-> TRUE, day |-> day, ms |-> ms, str |-> FALSE]

toJSON(date) == IF date.set THEN [date EXCEPT !.str = TRUE] ELSE date

\* JSON.stringify of a number: NaN is written as null
jsonNumber(n) == IF n = NaN THEN null ELSE n

\* JSON.stringify of the store's state
serialize(s) ==
    [s EXCEPT
        !.timer.minutes = jsonNumber(@),
        !.settings.pomodoroDuration = jsonNumber(@),
        !.settings.shortBreakDuration = jsonNumber(@),
        !.settings.longBreakDuration = jsonNumber(@),
        !.settings.longBreakInterval = jsonNumber(@),
        !.dailyStats = [i \in DOMAIN s.dailyStats |->
            [s.dailyStats[i] EXCEPT !.totalFocusTime = jsonNumber(@)]],
        !.tasks = [i \in DOMAIN s.tasks |->
            [s.tasks[i] EXCEPT !.createdAt = toJSON(@), !.completedAt = toJSON(@)]]]

\* a stored text that JSON.parse does not accept
Malformed == [malformed |-> TRUE]

\* persist middleware: every set writes the state under 'pomodoro-storage'
persist(s) == [present |-> TRUE, version |-> 1, state |-> serialize(s)]

\* the popup's completion effect, run after a render in which one of its
\* dependencies changed (`newSettings`: the settings object was replaced)
completionEffect(prev, next, newSettings) ==
    LET timer == next.timer
        settings == next.settings
        nextMode ==
            IF timer.mode = "pomodoro"
            THEN IF JsModIsZero(timer.completedPomodoros, settings.longBreakInterval)
                 THEN "longBreak" ELSE "shortBreak"
            ELSE "pomodoro"
        title == IF timer.mode = "pomodoro" THEN "Pomodoro Complete!" ELSE "Break Over!"
        description ==
            IF nextMode = "pomodoro" THEN "Ready for your next focus session?"
            ELSE IF nextMode = "longBreak" THEN "Time for a long break!"
            ELSE "Time for a short break!"
        changed ==
            \/ newSettings
            \/ prev.timer.minutes # timer.minutes
            \/ prev.timer.seconds # timer.seconds
            \/ prev.timer.isRunning # timer.isRunning
            \/ prev.timer.mode # timer.mode
            \/ prev.timer.completedPomodoros # timer.completedPomodoros
    IN  IF changed /\ timer.minutes = 0 /\ timer.seconds = 0 /\ ~timer.isRunning
        THEN [toast |-> Toast(title, description),
              system |-> IF settings.notifications
                         THEN Toast(title, description) ELSE NoToast]
        ELSE NoEmission

----------------------------------------------------------------------------
(* History                                                                 *)

Total(timer) == 60 * timer.minutes + timer.seconds

NoRun(t) == [start |-> t, n |-> 0]

\* the run of consecutive ticks after a tick that found timer `before`
TickRun(before) ==
    IF hist.run.n < MaxTickRun /\ hist.run.n > 0
    THEN [hist.run EXCEPT !.n = @ + 1]
    ELSE [start |-> before, n |-> 1]

Pre == [store |-> store, theme |-> theme, webTimer |-> webTimer,
        chromeStore |-> chromeStore]

\* `cand` is the candidate (localSettings) the last settings save was given
HistC(op, cand, run) == [op |-> op, pre |-> Pre, cand |-> cand, run |-> run]

Hist(op, run) == HistC(op, store.settings, run)

----------------------------------------------------------------------------
(* Initial states                                                          *)

\* settings a previous popup session saved (rehydrated by persist)
InitSettings ==
    {Assign(defaultSettings,
        [pomodoroDuration |-> p, shortBreakDuration |-> 1, longBreakDuration |-> 2,
         longBreakInterval |-> k, autoStartBreaks |-> ab, autoStartPomodoros |-> ap,
         theme |-> "light"]) :
        p \in {1, 2}, k \in {2, 3}, ab \in BOOLEAN, ap \in BOOLEAN}
    \cup
    \* the interval field is not validated on save: 1 and a cleared field
    {Assign(defaultSettings,
        [pomodoroDuration |-> 1, shortBreakDuration |-> 1, longBreakDuration |-> 2,
         longBreakInterval |-> k, theme |-> "light"]) : k \in {1, NaN}}
    \cup
    \* system notifications switched off
    {Assign(defaultSettings,
        [pomodoroDuration |-> 1, shortBreakDuration |-> 1, longBreakDuration |-> 2,
         longBreakInterval |-> 2, notifications |-> FALSE, theme |-> "light"])}

\* the store after such a save: updateSettings on the fresh store
InitStore(settings) ==
    updateSettings([timer |-> defaultTimer, tasks |-> <<>>,
                    settings |-> defaultSettings, dailyStats |-> <<>>], settings)

NoPending == [active |-> FALSE, minutes |-> 0, seconds |-> 0]

\* contexts in which the popup's store lives, and those in which the
\* service worker's alarm fires ("extension": both; "shared": the worker
\* and a popup that mirrors its session into the worker's entry)
PopupContexts == {"popup", "extension"}

WorkerContexts == {"background", "extension", "shared"}

InitCommon ==
    /\ theme = "light"
    /\ bgPending = NoPending
    /\ webTimer = [minutes |-> 25, seconds |-> 0, isRunning |-> FALSE,
                   mode |-> "pomodoro", completedPomodoros |-> 0]
    /\ today = 1
    /\ clock = 1
    /\ emitted = NoEmission
    /\ fired = {}

\* no entry under the key (`state` is then never read)
NoEntry ==
    [present |-> FALSE, version |-> 1,
     state |-> [timer |-> defaultTimer, tasks |-> <<>>,
                settings |-> defaultSettings, dailyStats |-> <<>>]]

InitPopup ==
    /\ ctx = "popup"
    /\ \E settings \in InitSettings : store = InitStore(settings)
    /\ localStore = persist(store)
    /\ chromeStore = [present |-> FALSE, state |-> InitStore(defaultSettings)]
    /\ InitCommon
    /\ hist = [op |-> "init", pre |-> [store |-> store, theme |-> theme,
                 webTimer |-> webTimer, chromeStore |-> chromeStore],
               cand |-> store.settings, run |-> NoRun(store.timer)]

----------------------------------------------------------------------------
(* Popup actions                                                           *)

PopupFrame ==
    UNCHANGED <<ctx, theme, chromeStore, bgPending, webTimer, today, clock, fired>>

\* what follows every set of the store: the persist write and the render
PopupEffects ==
    /\ emitted' = completionEffect(store, store', FALSE)
    /\ localStore' = persist(store')

StartTimer ==
    /\ ctx \in PopupContexts
    /\ store' = startTimer(store)
    /\ hist' = Hist("startTimer", NoRun(store'.timer))
    /\ PopupEffects
    /\ PopupFrame

PauseTimer ==
    /\ ctx \in PopupContexts
    /\ store' = pauseTimer(store)
    /\ hist' = Hist("pauseTimer", NoRun(store'.timer))
    /\ PopupEffects
    /\ PopupFrame

ResetTimer ==
    /\ ctx \in PopupContexts
    /\ store' = resetTimer(store)
    /\ hist' = Hist("resetTimer", NoRun(store'.timer))
    /\ PopupEffects
    /\ PopupFrame

CompleteTimer ==
    /\ ctx \in PopupContexts
    /\ store.timer.mode = "pomodoro" => store.timer.completedPomodoros < MaxCompleted
    /\ store' = completeTimer(store, today)
    /\ hist' = Hist("completeTimer", NoRun(store'.timer))
    /\ PopupEffects
    /\ PopupFrame

PopupTick ==
    /\ ctx \in PopupContexts
    /\ store.timer.isRunning
    /\ store' = popupTick(store, today)
    /\ hist' = Hist("popupTick", TickRun(store.timer))
    /\ PopupEffects
    /\ PopupFrame

----------------------------------------------------------------------------
(* Web page: the PomodoroTimer component of pages/Index.tsx                *)

\* useState(25) / useState(5): the setters are never called
pomodoroDuration == 25

breakDuration == 5

webResetTimer(t) ==
    LET duration == IF t.mode = "pomodoro" THEN pomodoroDuration ELSE breakDuration
    IN  Assign(t, [minutes |-> duration, seconds |-> 0, isRunning |-> FALSE])

webToggleTimer(t) == Assign(t, [isRunning |-> ~t.isRunning])

webSwitchMode(t) ==
    LET newMode == IF t.mode = "pomodoro" THEN "break" ELSE "pomodoro"
        duration == IF newMode = "pomodoro" THEN pomodoroDuration ELSE breakDuration
    IN  Assign(t, [mode |-> newMode, minutes |-> duration, seconds |-> 0,
                   isRunning |-> FALSE,
                   completedPomodoros |->
                       IF newMode = "break" THEN t.completedPomodoros + 1
                       ELSE t.completedPomodoros])

\* setTimer(prev => ...) of the countdown interval
webTick(prev) ==
    IF prev.seconds > 0 THEN Assign(prev, [seconds |-> prev.seconds - 1])
    ELSE IF prev.minutes > 0
    THEN Assign(prev, [minutes |-> prev.minutes - 1, seconds |-> 59])
    ELSE Assign(prev, [isRunning |-> FALSE])

\* the "check if timer completed" effect, run after the render of state t
webCompletionEffect(t) ==
    IF t.minutes = 0 /\ t.seconds = 0 /\ ~t.isRunning THEN webSwitchMode(t) ELSE t

\* whether the effect would count one more pomodoro than the model allows
WebCapped(t) ==
    /\ t.minutes = 0 /\ t.seconds = 0 /\ ~t.isRunning
    /\ t.mode = "pomodoro"
    /\ t.completedPomodoros >= MaxCompleted

InitWeb ==
    /\ ctx = "web"
    /\ store = [timer |-> defaultTimer, tasks |-> <<>>,
                settings |-> defaultSettings, dailyStats |-> <<>>]
    /\ localStore = NoEntry
    /\ chromeStore = [present |-> FALSE, state |-> InitStore(defaultSettings)]
    /\ InitCommon
    /\ hist = [op |-> "init", pre |-> [store |-> store, theme |-> theme,
                 webTimer |-> webTimer, chromeStore |-> chromeStore],
               cand |-> store.settings, run |-> NoRun(webTimer)]

WebFrame ==
    UNCHANGED <<ctx, store, theme, chromeStore, bgPending, today, clock,
                localStore, emitted, fired>>

WebResetTimer ==
    /\ ctx = "web"
    /\ webTimer' = webCompletionEffect(webResetTimer(webTimer))
    /\ hist' = Hist("webResetTimer", NoRun(webTimer'))
    /\ WebFrame

WebToggleTimer ==
    /\ ctx = "web"
    /\ ~WebCapped(webToggleTimer(webTimer))
    /\ webTimer' = webCompletionEffect(webToggleTimer(webTimer))
    /\ hist' = Hist("webToggleTimer", NoRun(webTimer'))
    /\ WebFrame

WebTick ==
    /\ ctx = "web"
    /\ webTimer.isRunning
    /\ ~WebCapped(webTick(webTimer))
    /\ webTimer' = webCompletionEffect(webTick(webTimer))
    /\ hist' = Hist("webTick", TickRun(webTimer))
    /\ WebFrame

----------------------------------------------------------------------------
(* Background service worker: the 'pomodoroTick' alarm                     *)

\* updateTimer up to its storage write: the values it will write back, or
\* inactive when it took the handleTimerComplete branch
bgUpdateTimer(timer) ==
    IF timer.seconds > 0
    THEN [active |-> TRUE, minutes |-> timer.minutes, seconds |-> timer.seconds - 1]
    ELSE IF JsGt(timer.minutes, 0)
    THEN [active |-> TRUE, minutes |-> timer.minutes - 1, seconds |-> 59]
    ELSE NoPending

\* the storage callback of updateTimer: re-read the entry, set minutes and
\* seconds, write it back
bgWriteBack(entry, pending) ==
    IF entry.present /\ entry.state # Malformed
    THEN [entry EXCEPT !.state = Assign(entry.state,
             [timer |-> Assign(entry.state.timer,
                 [minutes |-> pending.minutes, seconds |-> pending.seconds])])]
    ELSE entry

\* sessions an entry 'pomodoroState' may hold when the worker wakes up
BgTimers ==
    [minutes : 0..MaxBgMinutes, seconds : 0..59, isRunning : BOOLEAN, mode : Modes,
     completedPomodoros : {1}, currentCycle : {1}]

BgSettings ==
    {Assign(defaultSettings,
        [pomodoroDuration |-> 2, shortBreakDuration |-> 1, longBreakDuration |-> 2,
         longBreakInterval |-> 2, notifications |-> n, theme |-> "light"]) :
        n \in BOOLEAN}

InitBackground ==
    /\ ctx = "background"
    /\ store = [timer |-> defaultTimer, tasks |-> <<>>,
                settings |-> defaultSettings, dailyStats |-> <<>>]
    /\ localStore = NoEntry
    /\ \/ chromeStore = [present |-> FALSE, state |-> InitStore(defaultSettings)]
       \/ \E t \in BgTimers, settings \in BgSettings :
              chromeStore = [present |-> TRUE,
                             state |-> [timer |-> t, tasks |-> <<>>,
                                        settings |-> settings, dailyStats |-> <<>>]]
    /\ InitCommon
    /\ hist = [op |-> "init", pre |-> [store |-> store, theme |-> theme,
                 webTimer |-> webTimer, chromeStore |-> chromeStore],
               cand |-> store.settings, run |-> NoRun(chromeStore.state.timer)]

BgFrame == UNCHANGED <<ctx, store, theme, webTimer, today, clock, localStore>>

\* the popup's interval (1000 ms) and the worker's alarm (periodInMinutes
\* 1/60) each fire once per elapsed second; `fired` holds those that fired
\* in the current second, counted where the two work on one session
Fires(ticker) == IF ctx = "shared" THEN fired \cup {ticker} ELSE fired

\* handleTimerComplete: the system notification it creates
bgNotification(mode) ==
    [toast |-> NoToast,
     system |-> Toast(IF mode = "pomodoro" THEN "Pomodoro Complete!"
                      ELSE "Break Time Over!",
                      IF mode = "pomodoro" THEN "Great work! Time for a break."
                      ELSE "Break time is over. Ready for your next pomodoro?")]

\* onAlarm listener: read the entry; a running timer goes through updateTimer
BackgroundAlarm ==
    /\ ctx \in WorkerContexts
    /\ ~bgPending.active
    /\ "alarm" \notin fired
    /\ fired' = Fires("alarm")
    /\ IF chromeStore.present /\ chromeStore.state = Malformed
       THEN \* JSON.parse throws inside the storage callback: nothing catches it
            /\ bgPending' = bgPending
            /\ emitted' = NoEmission
            /\ hist' = Hist("backgroundThrows", hist.run)
       ELSE IF chromeStore.present /\ chromeStore.state.timer.isRunning
       THEN /\ bgPending' = bgUpdateTimer(chromeStore.state.timer)
            /\ emitted' = IF bgPending'.active THEN NoEmission
                          ELSE bgNotification(chromeStore.state.timer.mode)
            /\ hist' = Hist(IF bgPending'.active THEN "backgroundAlarm"
                            ELSE "handleTimerComplete", hist.run)
       ELSE /\ bgPending' = bgPending
            /\ emitted' = NoEmission
            /\ hist' = Hist("backgroundIdle", NoRun(chromeStore.state.timer))
    /\ UNCHANGED chromeStore
    /\ BgFrame

BackgroundWrite ==
    /\ ctx \in WorkerContexts
    /\ bgPending.active
    /\ chromeStore' = bgWriteBack(chromeStore, bgPending)
    /\ bgPending' = NoPending
    /\ emitted' = NoEmission
    /\ hist' = Hist("backgroundWrite", TickRun(chromeStore.state.timer))
    /\ UNCHANGED fired
    /\ BgFrame

----------------------------------------------------------------------------
(* Settings modal                                                          *)

\* applyTheme: 'system' resolves through matchMedia (`system` is its answer)
applyTheme(t, system) == IF t = "system" THEN system ELSE t

\* faulty variant: the upper bound of the focus duration is not checked
saveVerdictNoUpper(localSettings) ==
    IF JsLt(localSettings.pomodoroDuration, 1)
    THEN [ok |-> FALSE, toast |-> [title |-> "Invalid Duration",
            description |-> "Pomodoro duration must be between 1 and 60 minutes."]]
    ELSE IF \/ JsLt(localSettings.shortBreakDuration, 1)
            \/ JsGt(localSettings.shortBreakDuration, 30)
    THEN [ok |-> FALSE, toast |-> [title |-> "Invalid Duration",
            description |-> "Short break duration must be between 1 and 30 minutes."]]
    ELSE IF \/ JsLt(localSettings.longBreakDuration, 1)
            \/ JsGt(localSettings.longBreakDuration, 60)
    THEN [ok |-> FALSE, toast |-> [title |-> "Invalid Duration",
            description |-> "Long break duration must be between 1 and 60 minutes."]]
    ELSE [ok |-> TRUE, toast |-> [title |-> "Settings Saved",
            description |-> "Your preferences have been updated successfully!"]]

\* handleSave on candidate localSettings: the toast shown, and whether the
\* candidate went on to updateSettings / applyTheme
saveVerdict(localSettings) ==
    IF \/ JsLt(localSettings.pomodoroDuration, 1)
       \/ JsGt(localSettings.pomodoroDuration, 60)
    THEN [ok |-> FALSE, toast |-> Toast("Invalid Duration",
            "Pomodoro duration must be between 1 and 60 minutes.")]
    ELSE IF \/ JsLt(localSettings.shortBreakDuration, 1)
            \/ JsGt(localSettings.shortBreakDuration, 30)
    THEN [ok |-> FALSE, toast |-> Toast("Invalid Duration",
            "Short break duration must be between 1 and 30 minutes.")]
    ELSE IF \/ JsLt(localSettings.longBreakDuration, 1)
            \/ JsGt(localSettings.longBreakDuration, 60)
    THEN [ok |-> FALSE, toast |-> Toast("Invalid Duration",
            "Long break duration must be between 1 and 60 minutes.")]
    ELSE [ok |-> TRUE, toast |-> Toast("Settings Saved",
            "Your preferences have been updated successfully!")]

HandleSave(localSettings, system) ==
    LET verdict == saveVerdict(localSettings)
    IN  /\ store' = IF verdict.ok THEN updateSettings(store, localSettings) ELSE store
        /\ theme' = IF verdict.ok THEN applyTheme(localSettings.theme, system) ELSE theme
        /\ emitted' =
               LET effect == completionEffect(store, store', verdict.ok)
               IN  IF effect.toast # NoToast THEN effect
                   ELSE [toast |-> verdict.toast, system |-> NoToast]
        /\ localStore' = IF verdict.ok THEN persist(store') ELSE localStore
        /\ hist' = HistC("handleSave", localSettings, NoRun(store'.timer))
        /\ UNCHANGED <<ctx, chromeStore, bgPending, webTimer, today, clock, fired>>

\* values the user can give a field of the modal
FieldValues(key) ==
    IF key = "pomodoroDuration" THEN {0, 1, 2, 61, NaN}
    ELSE IF key = "shortBreakDuration" THEN {0, 1, 2, 31}
    ELSE IF key = "longBreakDuration" THEN {0, 2, 61}
    ELSE IF key = "longBreakInterval" THEN {2, 9, NaN}
    ELSE IF key = "theme" THEN {"light", "dark", "system"}
    ELSE BOOLEAN

EditableKeys ==
    {"pomodoroDuration", "shortBreakDuration", "longBreakDuration", "longBreakInterval",
     "autoStartBreaks", "theme"}

\* answers matchMedia can give when the candidate's theme asks for one
SystemThemes(localSettings) ==
    IF localSettings.theme = "system" THEN {"light", "dark"} ELSE {"light"}

\* the modal opened on the stored settings, one field edited, Save clicked
SaveSettings ==
    /\ ctx \in PopupContexts
    /\ \E key \in EditableKeys : \E value \in FieldValues(key) :
       \E system \in SystemThemes(Assign(store.settings, key :> value)) :
           HandleSave(Assign(store.settings, key :> value), system)

ModalSettings ==
    Assign(defaultSettings,
        [pomodoroDuration |-> 1, shortBreakDuration |-> 1, longBreakDuration |-> 2,
         longBreakInterval |-> 2, theme |-> "light"])

\* sessions the modal can be opened on: each mode, at its full duration or
\* thirty seconds before its end, paused or running
ModalTimers ==
    {[minutes |-> IF partial THEN 0 ELSE ModeDuration(ModalSettings, mode),
      seconds |-> IF partial THEN 30 ELSE 0,
      isRunning |-> running, mode |-> mode,
      completedPomodoros |->
          IF mode = "pomodoro" THEN 0 ELSE IF mode = "shortBreak" THEN 1 ELSE 2,
      currentCycle |-> 1] :
        mode \in Modes, partial \in BOOLEAN, running \in BOOLEAN}

InitModal ==
    /\ ctx = "popup"
    /\ \E t \in ModalTimers :
           store = [timer |-> t, tasks |-> <<>>, settings |-> ModalSettings,
                    dailyStats |-> <<>>]
    /\ localStore = persist(store)
    /\ chromeStore = [present |-> FALSE, state |-> InitStore(defaultSettings)]
    /\ InitCommon
    /\ hist = [op |-> "init", pre |-> [store |-> store, theme |-> theme,
                 webTimer |-> webTimer, chromeStore |-> chromeStore],
               cand |-> store.settings, run |-> NoRun(store.timer)]

----------------------------------------------------------------------------
(* The extension: popup store and service worker side by side              *)

\* persist's rehydration when the popup opens: the parsed entry is merged
\* over the store's initial state
rehydrate(entry, initial) ==
    IF entry.present /\ entry.state # Malformed /\ entry.version = 1
    THEN Assign(initial, entry.state)
    ELSE initial

\* the popup is closed and opened again
ReopenPopup ==
    /\ ctx = "extension"
    /\ store' = rehydrate(localStore,
                          [timer |-> defaultTimer, tasks |-> <<>>,
                           settings |-> defaultSettings, dailyStats |-> <<>>])
    /\ emitted' = completionEffect(store, store', TRUE)
    /\ localStore' = IF localStore.present /\ localStore.state = Malformed
                     THEN localStore ELSE persist(store')
    /\ hist' = Hist("reopenPopup", NoRun(store'.timer))
    /\ PopupFrame

\* entries 'pomodoroState' may hold when the popup is opened
ExtensionTimers ==
    {[minutes |-> 0, seconds |-> sec, isRunning |-> TRUE, mode |-> "pomodoro",
      completedPomodoros |-> 0, currentCycle |-> 1] : sec \in 0..MaxBgSeconds}

InitExtension ==
    /\ ctx = "extension"
    /\ store = InitStore(ModalSettings)
    /\ localStore = persist(store)
    /\ \/ chromeStore = [present |-> FALSE, state |-> InitStore(defaultSettings)]
       \/ \E t \in ExtensionTimers :
              chromeStore = [present |-> TRUE,
                             state |-> [timer |-> t, tasks |-> <<>>,
                                        settings |-> ModalSettings,
                                        dailyStats |-> <<>>]]
    /\ InitCommon
    /\ hist = [op |-> "init", pre |-> [store |-> store, theme |-> theme,
                 webTimer |-> webTimer, chromeStore |-> chromeStore],
               cand |-> store.settings, run |-> NoRun(store.timer)]

\* the record without field `key`: what an entry written by a build that did
\* not know the field holds
Without(record, key) == [k \in DOMAIN record \ {key} |-> record[k]]

\* entries 'pomodoro-storage' may hold when the popup opens: none, text
\* that is not JSON, a state saved earlier, such a state whose settings
\* lack a field, and one without the statistics
LoadEntries ==
    LET saved == persist(InitStore(ModalSettings))
    IN  {NoEntry,
         [saved EXCEPT !.state = Malformed],
         saved,
         [saved EXCEPT !.state.settings = Without(@, "sounds")],
         [saved EXCEPT !.state = Without(@, "dailyStats")]}

InitLoad ==
    /\ ctx = "extension"
    /\ localStore \in LoadEntries
    /\ store = rehydrate(localStore,
                         [timer |-> defaultTimer, tasks |-> <<>>,
                          settings |-> defaultSettings, dailyStats |-> <<>>])
    /\ \/ chromeStore = [present |-> FALSE, state |-> InitStore(defaultSettings)]
       \/ chromeStore = [present |-> TRUE, state |-> Malformed]
       \/ \E t \in ExtensionTimers :
              chromeStore = [present |-> TRUE,
                             state |-> [timer |-> t, tasks |-> <<>>,
                                        settings |-> ModalSettings,
                                        dailyStats |-> <<>>]]
    /\ InitCommon
    /\ hist = [op |-> "init", pre |-> [store |-> store, theme |-> theme,
                 webTimer |-> webTimer, chromeStore |-> chromeStore],
               cand |-> store.settings, run |-> NoRun(store.timer)]

\* the popup's session mirrored into the worker's entry: the aggregate is
\* written as a whole
mirror(s) == [present |-> TRUE, state |-> s]

Command(op, s) ==
    CASE op = "pauseTimer" -> pauseTimer(s)
      [] op = "resetTimer" -> resetTimer(s)
      [] op = "completeTimer" -> completeTimer(s, today)

\* a popup command on the latest snapshot, mirrored
MirroredCommand ==
    /\ ctx = "shared"
    /\ chromeStore.present
    /\ \E op \in {"pauseTimer", "resetTimer", "completeTimer"} :
          /\ (op = "completeTimer" /\ chromeStore.state.timer.mode = "pomodoro")
                => chromeStore.state.timer.completedPomodoros < MaxCompleted
          /\ store' = Command(op, chromeStore.state)
          /\ hist' = Hist(op, NoRun(store'.timer))
    /\ chromeStore' = mirror(store')
    /\ emitted' = completionEffect(store, store', FALSE)
    /\ localStore' = persist(store')
    /\ UNCHANGED <<ctx, theme, bgPending, webTimer, today, clock, fired>>

\* the popup's interval tick on the latest snapshot, mirrored
MirroredTick ==
    /\ ctx = "shared"
    /\ chromeStore.present
    /\ chromeStore.state.timer.isRunning
    /\ "popup" \notin fired
    /\ fired' = Fires("popup")
    /\ store' = popupTick(chromeStore.state, today)
    /\ chromeStore' = mirror(store')
    /\ emitted' = completionEffect(store, store', FALSE)
    /\ localStore' = persist(store')
    /\ hist' = Hist("popupTick", TickRun(chromeStore.state.timer))
    /\ UNCHANGED <<ctx, theme, bgPending, webTimer, today, clock>>

\* the next second begins: both tickers may fire again
SecondElapses ==
    /\ ctx = "shared"
    /\ fired # {}
    /\ ~bgPending.active
    /\ fired' = {}
    /\ emitted' = NoEmission
    /\ hist' = Hist("secondElapses", NoRun(chromeStore.state.timer))
    /\ UNCHANGED <<ctx, store, theme, chromeStore, bgPending, webTimer, today,
                   clock, localStore>>

SharedTimers ==
    {[minutes |-> 0, seconds |-> sec, isRunning |-> TRUE, mode |-> mode,
      completedPomodoros |-> 1, currentCycle |-> 1] :
        sec \in 0..MaxBgSeconds, mode \in Modes}

InitShared ==
    /\ ctx = "shared"
    /\ \E t \in SharedTimers :
           store = [timer |-> t, tasks |-> <<>>, settings |-> ModalSettings,
                    dailyStats |-> <<>>]
    /\ localStore = persist(store)
    /\ chromeStore = mirror(store)
    /\ InitCommon
    /\ hist = [op |-> "init", pre |-> [store |-> store, theme |-> theme,
                 webTimer |-> webTimer, chromeStore |-> chromeStore],
               cand |-> store.settings, run |-> NoRun(store.timer)]

----------------------------------------------------------------------------
(* Task list                                                               *)

\* texts typed into the task inputs: empty, blank, padded, plain
Texts == {"", "  ", " a ", "a", "b"}

\* String.prototype.trim on those texts
trim(text) ==
    CASE text = "  " -> ""
      [] text = " a " -> "a"
      [] OTHER -> text

addTask(s, text, day, ms) ==
    LET newTask == [id |-> ToString(ms), text |-> trim(text), completed |-> FALSE,
                    createdAt |-> NewDate(day, ms), completedAt |-> undefined]
    IN  Assign(s, [tasks |-> Append(s.tasks, newTask)])

\* faulty variant: the completion stamp is written on every toggle
toggleTaskAlwaysStamps(s, id, day, ms) ==
    LET toggled ==
            [i \in DOMAIN s.tasks |->
                IF s.tasks[i].id = id
                THEN Assign(s.tasks[i],
                         [completed |-> ~s.tasks[i].completed,
                          completedAt |-> NewDate(day, ms)])
                ELSE s.tasks[i]]
    IN  updateDailyStats(Assign(s, [tasks |-> toggled]), day)

toggleTask(s, id, day, ms) ==
    LET toggled ==
            [i \in DOMAIN s.tasks |->
                IF s.tasks[i].id = id
                THEN Assign(s.tasks[i],
                         [completed |-> ~s.tasks[i].completed,
                          completedAt |-> IF ~s.tasks[i].completed
                                          THEN NewDate(day, ms) ELSE undefined])
                ELSE s.tasks[i]]
    IN  updateDailyStats(Assign(s, [tasks |-> toggled]), day)

\* faulty variant: the id is not compared
updateTaskEvery(s, id, text) ==
    Assign(s, [tasks |->
        [i \in DOMAIN s.tasks |-> Assign(s.tasks[i], [text |-> trim(text)])]])

updateTask(s, id, text) ==
    Assign(s, [tasks |->
        [i \in DOMAIN s.tasks |->
            IF s.tasks[i].id = id
            THEN Assign(s.tasks[i], [text |-> trim(text)])
            ELSE s.tasks[i]]])

deleteTask(s, id) ==
    Assign(s, [tasks |-> SelectSeq(s.tasks, LAMBDA task : task.id # id)])

\* faulty variant: the popup hands every text to the store
handleAddTaskUnchecked(s, newTaskText, day, ms) ==
    addTask(s, newTaskText, day, ms)

\* popup handleAddTask: blank input is dropped before the store is called
handleAddTask(s, newTaskText, day, ms) ==
    IF trim(newTaskText) = "" THEN s ELSE addTask(s, newTaskText, day, ms)

\* handleSave of a task item: the edit is handed to onUpdate unless blank
itemHandleSave(s, id, editText) ==
    IF trim(editText) # "" THEN updateTask(s, id, trim(editText)) ELSE s

\* ids handed to the store: those Date.now() has produced or may produce, and
\* one that no task carries
Ids == {ToString(ms) : ms \in 0..MaxClock}

TaskArgs(id, text) == [id |-> id, text |-> text]

HandleAddTask ==
    /\ ctx \in PopupContexts
    /\ Len(store.tasks) < MaxTasks
    /\ \E text \in Texts :
          /\ store' = handleAddTask(store, text, today, clock)
          /\ emitted' = IF trim(text) = "" THEN NoEmission
                        ELSE [toast |-> Toast("Task Added", "New task added to your list!"),
                              system |-> NoToast]
          /\ localStore' = IF trim(text) = "" THEN localStore ELSE persist(store')
          /\ hist' = HistC("addTask", TaskArgs("", text), NoRun(store'.timer))
    /\ PopupFrame

ToggleTask ==
    /\ ctx \in PopupContexts
    /\ \E id \in Ids :
          /\ store' = toggleTask(store, id, today, clock)
          /\ hist' = HistC("toggleTask", TaskArgs(id, ""), NoRun(store'.timer))
    /\ PopupEffects
    /\ PopupFrame

UpdateTask ==
    /\ ctx \in PopupContexts
    /\ \E id \in Ids, text \in Texts :
          /\ store' = itemHandleSave(store, id, text)
          /\ localStore' = IF trim(text) = "" THEN localStore ELSE persist(store')
          /\ hist' = HistC("updateTask", TaskArgs(id, text), NoRun(store'.timer))
    /\ emitted' = NoEmission
    /\ PopupFrame

DeleteTask ==
    /\ ctx \in PopupContexts
    /\ \E id \in Ids :
          /\ store' = deleteTask(store, id)
          /\ hist' = HistC("deleteTask", TaskArgs(id, ""), NoRun(store'.timer))
    /\ PopupEffects
    /\ PopupFrame

\* a millisecond passes
AdvanceClock ==
    /\ clock < MaxClock
    /\ clock' = clock + 1
    /\ emitted' = NoEmission
    /\ hist' = Hist("advanceClock", NoRun(store.timer))
    /\ UNCHANGED <<ctx, store, theme, chromeStore, bgPending, webTimer, today,
                   localStore, fired>>

\* midnight passes: new Date() falls on the next calendar day
AdvanceDay ==
    /\ today < MaxDay
    /\ today' = today + 1
    /\ emitted' = NoEmission
    /\ hist' = Hist("advanceDay", NoRun(store.timer))
    /\ UNCHANGED <<ctx, store, theme, chromeStore, bgPending, webTimer, clock,
                   localStore, fired>>

InitTasks ==
    /\ ctx = "popup"
    /\ store = InitStore(ModalSettings)
    /\ localStore = persist(store)
    /\ chromeStore = [present |-> FALSE, state |-> InitStore(defaultSettings)]
    /\ InitCommon
    /\ hist = [op |-> "init", pre |-> [store |-> store, theme |-> theme,
                 webTimer |-> webTimer, chromeStore |-> chromeStore],
               cand |-> store.settings, run |-> NoRun(store.timer)]

\* the popup opened on a list of two tasks added a millisecond apart
InitStats ==
    /\ ctx = "popup"
    /\ store = addTask(addTask(InitStore(ModalSettings), "a", 1, 1), "b", 1, 2)
    /\ localStore = persist(store)
    /\ chromeStore = [present |-> FALSE, state |-> InitStore(defaultSettings)]
    /\ InitCommon
    /\ hist = [op |-> "init", pre |-> [store |-> store, theme |-> theme,
                 webTimer |-> webTimer, chromeStore |-> chromeStore],
               cand |-> store.settings, run |-> NoRun(store.timer)]

----------------------------------------------------------------------------
(* Specifications                                                          *)

\* the timer in its three execution contexts, under settings saved earlier
Init == InitPopup \/ InitWeb \/ InitBackground

Next ==
    \/ StartTimer
    \/ PauseTimer
    \/ ResetTimer
    \/ CompleteTimer
    \/ PopupTick
    \/ WebResetTimer
    \/ WebToggleTimer
    \/ WebTick
    \/ BackgroundAlarm
    \/ BackgroundWrite

Spec == Init /\ [][Next]_vars

\* the settings modal over the store (no countdown)
NextSettings ==
    \/ SaveSettings
    \/ StartTimer
    \/ PauseTimer
    \/ ResetTimer

SpecSettings == InitModal /\ [][NextSettings]_vars

\* the extension as built: the popup's store beside the service worker
NextExtension ==
    \/ StartTimer
    \/ PauseTimer
    \/ ResetTimer
    \/ PopupTick
    \/ ReopenPopup
    \/ BackgroundAlarm
    \/ BackgroundWrite

SpecExtension == InitExtension /\ [][NextExtension]_vars

\* popup and worker starting on whatever the two storages hold
NextLoad ==
    \/ ReopenPopup
    \/ StartTimer
    \/ PauseTimer
    \/ ResetTimer
    \/ BackgroundAlarm
    \/ BackgroundWrite

SpecLoad == InitLoad /\ [][NextLoad]_vars

\* the service worker beside a popup that mirrors its session
NextShared ==
    \/ MirroredCommand
    \/ MirroredTick
    \/ BackgroundAlarm
    \/ BackgroundWrite
    \/ SecondElapses

SpecShared == InitShared /\ [][NextShared]_vars

\* the task list of the popup
NextTasks ==
    \/ HandleAddTask
    \/ ToggleTask
    \/ UpdateTask
    \/ DeleteTask
    \/ AdvanceClock

SpecTasks == InitTasks /\ [][NextTasks]_vars

\* the modal opened on the stored settings, the focus or the long break
\* duration set to a number (inside its range or just outside it), Save
\* clicked
SaveDuration ==
    /\ ctx \in PopupContexts
    /\ \E key \in {"pomodoroDuration", "longBreakDuration"} :
       \E value \in FieldValues(key) \ {NaN} :
           HandleSave(Assign(store.settings, key :> value), "light")

\* the countdown with saves of numeric durations in between
NextRange ==
    \/ SaveDuration
    \/ StartTimer
    \/ PauseTimer
    \/ ResetTimer
    \/ CompleteTimer
    \/ PopupTick

\* the popup opened on a fresh focus session
InitRange ==
    /\ ctx = "popup"
    /\ store = InitStore(ModalSettings)
    /\ localStore = persist(store)
    /\ chromeStore = [present |-> FALSE, state |-> InitStore(defaultSettings)]
    /\ InitCommon
    /\ hist = [op |-> "init", pre |-> [store |-> store, theme |-> theme,
                 webTimer |-> webTimer, chromeStore |-> chromeStore],
               cand |-> store.settings, run |-> NoRun(store.timer)]

SpecRange == InitRange /\ [][NextRange]_vars

\* a session that is started and then only ticked: the popup's interval
\* and the worker's alarm fire for as long as they are enabled
InitLive == InitPopup \/ InitBackground

NextLive ==
    \/ StartTimer
    \/ PopupTick
    \/ BackgroundAlarm
    \/ BackgroundWrite

SpecLive ==
    /\ InitLive
    /\ [][NextLive]_vars
    /\ WF_vars(PopupTick)
    /\ WF_vars(BackgroundAlarm)
    /\ WF_vars(BackgroundWrite)

\* the daily statistics: completions and task toggles over several days
NextStats ==
    \/ ToggleTask
    \/ DeleteTask
    \/ CompleteTimer
    \/ AdvanceDay

SpecStats == InitStats /\ [][NextStats]_vars

----------------------------------------------------------------------------
(* Properties                                                              *)

\* n is a multiple of k (no number is a multiple of NaN or of 0 but 0)
Divides(k, n) == k # NaN /\ k # 0 /\ \E q \in 0..n : q * k = n

\* the duration the settings configure for a mode
Configured(settings, mode) ==
    CASE mode = "pomodoro" -> settings.pomodoroDuration
      [] mode = "shortBreak" -> settings.shortBreakDuration
      [] mode = "longBreak" -> settings.longBreakDuration

AtZero(timer) == timer.minutes = 0 /\ timer.seconds = 0

\* C1: complete from focus adds one to completedFocusCount and enters
\* longBreak exactly when the new count is a multiple of longBreakInterval,
\* else shortBreak; complete from a break enters focus; the remaining time
\* is the new mode's configured duration, seconds 0.
C1_CompleteTransition ==
    hist.op = "completeTimer" =>
        LET before == hist.pre.store.timer
            settings == hist.pre.store.settings
            now == store.timer
        IN  /\ before.mode = "pomodoro" =>
                /\ now.completedPomodoros = before.completedPomodoros + 1
                /\ now.mode = IF Divides(settings.longBreakInterval,
                                         now.completedPomodoros)
                              THEN "longBreak" ELSE "shortBreak"
            /\ before.mode # "pomodoro" =>
                /\ now.mode = "pomodoro"
                /\ now.completedPomodoros = before.completedPomodoros
            /\ now.minutes = Configured(settings, now.mode)
            /\ now.seconds = 0

C1_Witness ==
    /\ hist.op = "completeTimer"
    /\ hist.pre.store.timer.mode = "pomodoro"
    /\ hist.pre.store.timer.completedPomodoros = 2
    /\ hist.pre.store.settings.longBreakInterval = 3
    /\ store.timer.mode = "longBreak"
    /\ store.timer.minutes = 2

\* C2: after complete the running flag is the flag of the mode entered:
\* autoStartBreaks on entering a break, autoStartPomodoros on entering focus.
C2_RunningFollowsEnteredMode ==
    hist.op = "completeTimer" =>
        store.timer.isRunning =
            IF store.timer.mode = "pomodoro"
            THEN hist.pre.store.settings.autoStartPomodoros
            ELSE hist.pre.store.settings.autoStartBreaks

\* the settings lie within the bounds of the data model
InBounds(settings) ==
    /\ settings.pomodoroDuration \in 1..60
    /\ settings.shortBreakDuration \in 1..30
    /\ settings.longBreakDuration \in 1..60
    /\ settings.longBreakInterval \in 2..8

\* C3: a popup tick on a running session at 0:00 leaves the store holding the
\* completed session (next mode, reloaded time, updated counters); stated
\* for settings within their bounds.
C3_TickAtZeroCompletes ==
    (/\ hist.op = "popupTick"
     /\ AtZero(hist.pre.store.timer)
     /\ InBounds(store.settings)) =>
        store.timer = completeTimer(hist.pre.store, today).timer

\* C4: one background tick leaves the persisted session as a tick should:
\* one second less, and at 0:00 the next mode with its duration reloaded and
\* its counters updated.
C4_BackgroundTickMatchesPopup ==
    (hist.op \in {"backgroundWrite", "handleTimerComplete"}) =>
        LET before == hist.pre.chromeStore.state
        IN  chromeStore.state.timer =
                IF AtZero(before.timer)
                THEN completeTimer(before, today).timer
                ELSE popupTick(before, today).timer

\* C5: the tick that takes the countdown from 0:01 to zero also leaves 0:00
\* behind: no running session is left at 0:00 (popup and web page tickers,
\* settings within their bounds).
C5_NoRunningSessionAtZero ==
    /\ (/\ hist.op = "popupTick"
        /\ Total(hist.pre.store.timer) = 1
        /\ InBounds(store.settings)) =>
           ~(store.timer.isRunning /\ AtZero(store.timer))
    /\ (hist.op = "webTick" /\ Total(hist.pre.webTimer) = 1) =>
           ~(webTimer.isRunning /\ AtZero(webTimer))

\* the timer the context's ticker counts down
Ticked == IF ctx = "popup" THEN store.timer
          ELSE IF ctx = "web" THEN webTimer
          ELSE chromeStore.state.timer

TickedBefore == IF ctx = "popup" THEN hist.pre.store.timer
                ELSE IF ctx = "web" THEN hist.pre.webTimer
                ELSE hist.pre.chromeStore.state.timer

TickOps == {"popupTick", "webTick", "backgroundWrite"}

\* C6: N consecutive ticks (N <= T) of a running session with T seconds left
\* leave T - N seconds, seconds within 0..59, a tick at m:00 giving (m-1):59,
\* and change neither the mode nor the counters.
C6_TicksCountDown ==
    (hist.op \in TickOps /\ hist.run.n <= Total(hist.run.start)) =>
        /\ Total(Ticked) = Total(hist.run.start) - hist.run.n
        /\ Ticked.seconds \in 0..59
        /\ Ticked.minutes >= 0
        /\ (TickedBefore.seconds = 0 /\ TickedBefore.minutes > 0) =>
               /\ Ticked.minutes = TickedBefore.minutes - 1
               /\ Ticked.seconds = 59
        /\ Ticked.mode = hist.run.start.mode
        /\ Ticked.completedPomodoros = hist.run.start.completedPomodoros
        /\ Ticked.isRunning
        /\ ctx # "web" => Ticked.currentCycle = hist.run.start.currentCycle

C6_Witness ==
    /\ hist.op = "popupTick"
    /\ hist.run.n = 3
    /\ Total(hist.run.start) = 61
    /\ store.timer.minutes = 0
    /\ store.timer.seconds = 58

C8_EveryKthCompletionIsLong ==
    /\ (hist.op = "completeTimer" /\ hist.pre.store.timer.mode = "pomodoro") =>
           (store.timer.mode = "longBreak" <=>
                Divides(store.settings.longBreakInterval,
                        store.timer.completedPomodoros))
    /\ (ctx = "web" /\ hist.pre.webTimer.mode = "pomodoro"
                    /\ webTimer.mode # "pomodoro") =>
           (webTimer.mode = "longBreak" <=>
                Divides(store.settings.longBreakInterval,
                        webTimer.completedPomodoros))

\* a duration of the candidate is a number outside its range
DurationOutOfRange(c) ==
    \/ c.pomodoroDuration # NaN /\ c.pomodoroDuration \notin 1..60
    \/ c.shortBreakDuration # NaN /\ c.shortBreakDuration \notin 1..30
    \/ c.longBreakDuration # NaN /\ c.longBreakDuration \notin 1..60

C10_StoredSettingsInBounds == InBounds(store.settings)


\* C11: a successful save that changes the duration configured for the
\* active mode, whichever mode it is, leaves the session at the new
\* duration with seconds 0.
C11_ActiveDurationChangeResets ==
    (/\ hist.op = "handleSave"
     /\ saveVerdict(hist.cand).ok
     /\ InBounds(hist.cand)
     /\ Configured(hist.cand, hist.pre.store.timer.mode)
            # Configured(hist.pre.store.settings, hist.pre.store.timer.mode))
    => /\ store.timer.minutes = Configured(hist.cand, hist.pre.store.timer.mode)
       /\ store.timer.seconds = 0

\* C12: a system notification is requested only while settings.notifications
\* is on, in the popup as in the background ticker.
C12_NoSystemNotificationWhenOff ==
    emitted.system # NoToast =>
        IF ctx = "background"
        THEN chromeStore.state.settings.notifications
        ELSE store.settings.notifications

\* C13: every complete transition of the popup's session shows a toast whose
\* title names the mode that was left.
C13_CompleteEmitsToast ==
    (ctx = "popup" /\ hist.op = "completeTimer") =>
        emitted.toast.title =
            IF hist.pre.store.timer.mode = "pomodoro"
            THEN "Pomodoro Complete!" ELSE "Break Over!"

\* one tick of the worker taken on timer t as a whole
AtomicTick(t) ==
    LET ticked == bgUpdateTimer(t)
    IN  IF t.isRunning /\ ticked.active
        THEN Assign(t, [minutes |-> ticked.minutes, seconds |-> ticked.seconds])
        ELSE t

\* C14: what a background tick writes back is a tick of the snapshot the
\* entry held just before the write, so a popup command made after the
\* worker's read is not overwritten with values of the older snapshot.
C14_BackgroundTickAtomic ==
    hist.op = "backgroundWrite" =>
        chromeStore.state.timer = AtomicTick(hist.pre.chromeStore.state.timer)

\* C15: an alarm that fires while the popup's persisted session is running
\* reads that session and goes on to write its decremented time.
C15_AlarmReadsPopupSession ==
    (/\ ctx = "extension"
     /\ hist.op \in {"backgroundAlarm", "handleTimerComplete", "backgroundIdle"}
     /\ localStore.present
     /\ localStore.state.timer.isRunning
     /\ ~AtZero(localStore.state.timer))
    => bgPending = bgUpdateTimer(localStore.state.timer)

\* C16: every task's text is non-empty and trimmed; an add or a rename with
\* blank text leaves the task list as it was; an add with other text appends
\* exactly one task, not completed, carrying a creation time.
C16_TaskTextsNonBlankTrimmed ==
    LET before == hist.pre.store.tasks
        blank == trim(hist.cand.text) = ""
    IN  /\ \A i \in DOMAIN store.tasks :
              /\ store.tasks[i].text # ""
              /\ trim(store.tasks[i].text) = store.tasks[i].text
        /\ (hist.op \in {"addTask", "updateTask"} /\ blank) => store.tasks = before
        /\ (hist.op = "addTask" /\ ~blank) =>
              /\ Len(store.tasks) = Len(before) + 1
              /\ SubSeq(store.tasks, 1, Len(before)) = before
              /\ ~store.tasks[Len(store.tasks)].completed
              /\ ~store.tasks[Len(store.tasks)].completedAt.set
              /\ store.tasks[Len(store.tasks)].createdAt = NewDate(today, clock)
              /\ store.tasks[Len(store.tasks)].text = trim(hist.cand.text)

\* a blank rename of the second of two tasks
C16_Witness ==
    /\ hist.op = "updateTask"
    /\ hist.cand.text = "  "
    /\ Len(store.tasks) = 2
    /\ hist.cand.id = store.tasks[2].id
    /\ store.tasks[2].text = "a"
    /\ store.tasks[2].createdAt.ms = 2

\* C17: the tasks of the list carry pairwise distinct ids.
C17_TaskIdsDistinct ==
    \A i, j \in DOMAIN store.tasks :
        i # j => store.tasks[i].id # store.tasks[j].id

\* C18: a task carries a completedAt value exactly when it is completed, and
\* a toggle flips the addressed task's flag, stamping it with the current
\* time when it becomes completed and clearing the stamp when it does not.
C18_CompletedAtIffCompleted ==
    /\ \A i \in DOMAIN store.tasks :
           store.tasks[i].completedAt.set <=> store.tasks[i].completed
    /\ hist.op = "toggleTask" =>
           LET before == hist.pre.store.tasks
           IN  /\ Len(store.tasks) = Len(before)
               /\ \A i \in DOMAIN before :
                      before[i].id = hist.cand.id =>
                          /\ store.tasks[i].completed = ~before[i].completed
                          /\ store.tasks[i].completedAt =
                                 IF before[i].completed THEN undefined
                                 ELSE NewDate(today, clock)

\* a completed task toggled back, beside one that stays completed
C18_Witness ==
    /\ hist.op = "toggleTask"
    /\ Len(store.tasks) = 2
    /\ hist.cand.id = store.tasks[1].id
    /\ hist.pre.store.tasks[1].completed
    /\ hist.pre.store.tasks[1].completedAt.ms = 1
    /\ ~store.tasks[1].completed
    /\ store.tasks[1].completedAt = undefined
    /\ store.tasks[2].completed
    /\ clock = 2

\* the last task operation was handed an id that no task carried
UnknownId ==
    /\ hist.op \in {"toggleTask", "updateTask", "deleteTask"}
    /\ \A i \in DOMAIN hist.pre.store.tasks :
           hist.pre.store.tasks[i].id # hist.cand.id

\* C19 (as stated): a toggle, rename or remove with an id that matches no
\* task leaves the whole store unchanged, daily statistics included.
C19_UnknownIdIsNoOp ==
    UnknownId => store = hist.pre.store

\* C19 (amended): such a call leaves task list, session and settings
\* unchanged; rename and remove leave the daily statistics unchanged too,
\* while toggle recomputes the current day's row.
C19_UnknownIdKeepsTasks ==
    UnknownId =>
        /\ store.tasks = hist.pre.store.tasks
        /\ store.timer = hist.pre.store.timer
        /\ store.settings = hist.pre.store.settings
        /\ store.dailyStats =
               IF hist.op = "toggleTask"
               THEN updateDailyStats(hist.pre.store, today).dailyStats
               ELSE hist.pre.store.dailyStats

\* a toggle with an unknown id on a list of two tasks adds the day's row
C19_Witness ==
    /\ UnknownId
    /\ hist.op = "toggleTask"
    /\ Len(store.tasks) = 2
    /\ hist.pre.store.dailyStats = <<>>
    /\ Len(store.dailyStats) = 1

\* C20: toggle, rename and remove change at most one task, the addressed
\* one, and keep the others and their order; add keeps the existing tasks
\* and appends at the end.
C20_OnlyAddressedTaskAffected ==
    LET before == hist.pre.store.tasks
        after == store.tasks
    IN  /\ hist.op \in {"toggleTask", "updateTask"} =>
              /\ Len(after) = Len(before)
              /\ Cardinality({i \in DOMAIN before : after[i] # before[i]}) <= 1
              /\ \A i \in DOMAIN before :
                     after[i] # before[i] => before[i].id = hist.cand.id
        /\ hist.op = "deleteTask" =>
              \/ after = before
              \/ \E k \in DOMAIN before :
                     /\ before[k].id = hist.cand.id
                     /\ after = SubSeq(before, 1, k - 1)
                                    \o SubSeq(before, k + 1, Len(before))
        /\ hist.op = "addTask" =>
              SubSeq(after, 1, Len(before)) = before

\* C21: dailyStats holds at most one row per date: a completion or toggle on a
\* day that has a row keeps the number of rows.
C21_OneRowPerDate ==
    /\ \A i, j \in DOMAIN store.dailyStats :
           i # j => store.dailyStats[i].date # store.dailyStats[j].date
    /\ (/\ hist.op \in {"completeTimer", "toggleTask"}
        /\ \E i \in DOMAIN hist.pre.store.dailyStats :
               hist.pre.store.dailyStats[i].date = today)
       => Len(store.dailyStats) = Len(hist.pre.store.dailyStats)

\* a second-day toggle that rewrites the second day's row beside the first's
C21_Witness ==
    /\ hist.op = "toggleTask"
    /\ today = 2
    /\ Len(hist.pre.store.dailyStats) = 2
    /\ Len(store.dailyStats) = 2
    /\ store.dailyStats[1].date = 1
    /\ store.dailyStats[2].date = 2
    /\ store.dailyStats[2].completedTasks = 1
    /\ hist.pre.store.dailyStats[2].completedTasks = 0

\* the row the state calls for on day `day`
ExpectedRow(s, day) ==
    [date |-> day,
     completedPomodoros |-> s.timer.completedPomodoros,
     totalFocusTime |-> s.timer.completedPomodoros * s.settings.pomodoroDuration,
     completedTasks |->
         Cardinality({i \in DOMAIN s.tasks :
             s.tasks[i].completedAt.set /\ s.tasks[i].completedAt.day = day})]

\* C22: right after a complete or a task toggle there is a row for the
\* current day holding the session's count of completed focus sessions, that
\* count times the configured focus minutes, and the number of tasks
\* completed on the current day; the rows of other days are as before.
C22_TodayRowRecomputed ==
    hist.op \in {"completeTimer", "toggleTask"} =>
        LET before == hist.pre.store.dailyStats
        IN  /\ \E i \in DOMAIN store.dailyStats :
                   store.dailyStats[i] = ExpectedRow(store, today)
            /\ \A i \in DOMAIN before :
                   before[i].date # today => store.dailyStats[i] = before[i]

\* a completion on the second day, with one task completed on each day and
\* the first day's row holding other figures
C22_Witness ==
    /\ hist.op = "completeTimer"
    /\ today = 2
    /\ Len(store.dailyStats) = 2
    /\ store.dailyStats[1] = [date |-> 1, completedPomodoros |-> 1,
                              totalFocusTime |-> 1, completedTasks |-> 1]
    /\ store.dailyStats[2] = [date |-> 2, completedPomodoros |-> 2,
                              totalFocusTime |-> 2, completedTasks |-> 1]
    /\ Len(store.tasks) = 2

\* C23: whenever the current day has a row, the row agrees with the current
\* session, settings and task list.
C23_TodayRowConsistent ==
    \A i \in DOMAIN store.dailyStats :
        store.dailyStats[i].date = today =>
            store.dailyStats[i] = ExpectedRow(store, today)

\* C24: reloading what was persisted gives back the state that was
\* persisted, every field with its value and its type.
C24_RoundTripIdentical ==
    localStore = persist(store) =>
        rehydrate(localStore, [timer |-> defaultTimer, tasks |-> <<>>,
                               settings |-> defaultSettings,
                               dailyStats |-> <<>>]) = store

\* C25: loading never fails: the worker's read of its entry does not throw,
\* and the popup's store comes up with every field of the settings and of
\* the state defined, absent ones at their defaults.
C25_LoadFallsBackToDefaults ==
    /\ hist.op # "backgroundThrows"
    /\ hist.op = "reopenPopup" =>
           /\ DOMAIN store = {"timer", "tasks", "settings", "dailyStats"}
           /\ \A key \in DOMAIN defaultSettings : key \in DOMAIN store.settings

\* C26: start and pause change only the running flag: start sets it (and is
\* a no-op on a running session), pause clears it, and remaining minutes and
\* seconds, mode, completedPomodoros and currentCycle stay as they were; on
\* the web page the one button toggles the flag
C26_StartPauseOnlyRunningFlag ==
    /\ hist.op = "startTimer" =>
           store.timer = [hist.pre.store.timer EXCEPT !.isRunning = TRUE]
    /\ hist.op = "pauseTimer" =>
           store.timer = [hist.pre.store.timer EXCEPT !.isRunning = FALSE]
    /\ hist.op = "webToggleTimer" =>
           webTimer = [hist.pre.webTimer EXCEPT !.isRunning = ~@]

\* the settings field that configures the duration of a mode
ActiveDurationKey(mode) ==
    IF mode = "pomodoro" THEN "pomodoroDuration"
    ELSE IF mode = "shortBreak" THEN "shortBreakDuration"
    ELSE "longBreakDuration"

\* C27: an accepted settings save that leaves the duration configured for
\* the active mode as it was (the theme, a flag, the interval or another
\* mode's duration differs) leaves the session's remaining minutes and
\* seconds and its running flag unchanged
C27_SaveKeepsSession ==
    LET key == ActiveDurationKey(hist.pre.store.timer.mode)
    IN  (/\ hist.op = "handleSave"
         /\ saveVerdict(hist.cand).ok
         /\ hist.cand[key] = hist.pre.store.settings[key])
        => /\ store.timer.minutes = hist.pre.store.timer.minutes
           /\ store.timer.seconds = hist.pre.store.timer.seconds
           /\ store.timer.isRunning = hist.pre.store.timer.isRunning

\* C28: with the popup open and the alarm firing for the same running
\* session, an elapsed second lowers the remaining time by one second at
\* most: the two tickers never both decrement the session for one second
\* (a second in which both fired and no command came between: a run of two)
C28_OneDecrementPerSecond ==
    (ctx = "shared" /\ fired = {"popup", "alarm"} /\ hist.run.n = 2)
        => Total(hist.run.start) - Total(chromeStore.state.timer) <= 1

\* C29: after any sequence of start, pause, reset, tick, complete and saves
\* of numeric durations the remaining seconds are in 0..59 and the
\* remaining minutes in 0..60
C29_TimeInRange ==
    /\ store.timer.seconds \in 0..59
    /\ store.timer.minutes \in 0..60

\* a tick borrowed a minute of a session a save had set to two minutes
C29_Witness ==
    /\ hist.op = "popupTick"
    /\ store.settings.pomodoroDuration = 2
    /\ store.timer.mode = "pomodoro"
    /\ store.timer.minutes = 1
    /\ store.timer.seconds = 59

\* long breaks completed so far: one was entered at every multiple of the
\* interval, and the one the session is in is not completed yet
LongBreaksCompleted(timer, settings) ==
    (timer.completedPomodoros \div settings.longBreakInterval)
        - (IF timer.mode = "longBreak" THEN 1 ELSE 0)

\* C30: currentCycle starts at 1, grows by exactly one on a completeTimer
\* that leaves longBreak and is left alone by every other operation, so it
\* always equals 1 plus the number of long breaks completed
C30_CycleCountsLongBreaks ==
    /\ hist.op = "init" => store.timer.currentCycle = 1
    /\ (hist.op = "completeTimer" /\ hist.pre.store.timer.mode = "longBreak")
           => store.timer.currentCycle = hist.pre.store.timer.currentCycle + 1
    /\ (hist.op # "init"
        /\ ~(hist.op = "completeTimer" /\ hist.pre.store.timer.mode = "longBreak"))
           => store.timer.currentCycle = hist.pre.store.timer.currentCycle
    /\ store.timer.currentCycle = 1 + LongBreaksCompleted(store.timer, store.settings)

\* a completeTimer left the first long break
C30_Witness ==
    /\ hist.op = "completeTimer"
    /\ hist.pre.store.timer.mode = "longBreak"
    /\ hist.pre.store.timer.currentCycle = 1
    /\ store.timer.mode = "pomodoro"
    /\ store.timer.currentCycle = 2

\* C31: a completion notification (toast or system notification) is shown
\* only by a step that performs the complete transition, and once the
\* worker has shown it the next alarm finds nothing to announce again
C31_NotificationOnlyOnComplete ==
    /\ emitted # NoEmission => Ticked.mode # TickedBefore.mode
    /\ hist.op = "handleTimerComplete" =>
           ~(chromeStore.state.timer.isRunning /\ AtZero(chromeStore.state.timer))

\* C32: when the popup announces the break at the end of a focus session,
\* the break type it names (long or short) is the mode completeTimer enters
\* from that session
C32_AnnouncedBreakIsEntered ==
    (ctx = "popup" /\ emitted.toast # NoToast /\ store.timer.mode = "pomodoro")
        => emitted.toast.description =
               IF completeTimer(store, today).timer.mode = "longBreak"
               THEN "Time for a long break!" ELSE "Time for a short break!"

\* the step completed a focus session: completeTimer in the popup, the tick
\* at 0:00 on the web page
CompletedFocus ==
    \/ /\ hist.op = "completeTimer"
       /\ hist.pre.store.timer.mode = "pomodoro"
    \/ /\ hist.op = "webTick"
       /\ AtZero(hist.pre.webTimer)
       /\ hist.pre.webTimer.mode = "pomodoro"

\* C33: completedPomodoros grows by exactly one on a complete from focus
\* and is left as it was by every other operation
C33_CountChangesOnFocusComplete ==
    hist.op # "init" =>
        Ticked.completedPomodoros =
            IF CompletedFocus THEN TickedBefore.completedPomodoros + 1
            ELSE TickedBefore.completedPomodoros

\* C34: under fair ticking a running session that is never paused or reset
\* eventually completes and enters the next mode; with autoStartBreaks and
\* autoStartPomodoros both set the next mode is running in its turn, so
\* that focus is entered again and again
C34_RunningSessionCompletes ==
    /\ \A mode \in Modes :
           (Ticked.isRunning /\ Ticked.mode = mode) ~> (Ticked.mode # mode)
    /\ \A mode \in Modes :
           (/\ ctx = "popup"
            /\ store.timer.isRunning /\ store.timer.mode = mode
            /\ store.settings.autoStartBreaks
            /\ store.settings.autoStartPomodoros)
               ~> (store.timer.isRunning /\ store.timer.mode # mode)

=============================================================================
